---- MODULE Spec2Model ----
(***************************************************************************)
(* State-machine model of src/main.py: the self-healing server monitor.    *)
(*                                                                         *)
(* One monitor process runs main(): it loads config.json, starts the       *)
(* Prometheus exporter thread and then loops: health checks, history       *)
(* update, anomaly scoring with threshold adaptation (written back to      *)
(* config.json), restart + alert, distributed-server poll, sleep.          *)
(*                                                                         *)
(* Python floats are modelled as exact values with the IEEE specials the   *)
(* code produces: a finite rational num/den, +inf, -inf and NaN.  Rounding *)
(* of finite values is not modelled.                                       *)
(***************************************************************************)
EXTENDS Integers, Sequences, FiniteSets, TLC

(***************************************************************************)
(* Python float arithmetic                                                 *)
(***************************************************************************)
Fin(n) == [kind |-> "fin", num |-> n, den |-> 1]
PosInf == [kind |-> "inf", num |-> 0, den |-> 1]
NegInf == [kind |-> "ninf", num |-> 0, den |-> 1]
NaN == [kind |-> "nan", num |-> 0, den |-> 1]

IsFinite(a) == a.kind = "fin"

\* a + b
FAdd(a, b) ==
    IF a.kind = "nan" \/ b.kind = "nan" THEN NaN
    ELSE IF a.kind = "fin" /\ b.kind = "fin"
         THEN [kind |-> "fin", num |-> a.num * b.den + b.num * a.den, den |-> a.den * b.den]
    ELSE IF a.kind = "fin" THEN b
    ELSE IF b.kind = "fin" THEN a
    ELSE IF a.kind = b.kind THEN a
    ELSE NaN

\* -a
FNeg(a) ==
    IF a.kind = "fin" THEN [a EXCEPT !.num = 0 - a.num]
    ELSE IF a.kind = "inf" THEN NegInf
    ELSE IF a.kind = "ninf" THEN PosInf
    ELSE NaN

\* a - b
FSub(a, b) == FAdd(a, FNeg(b))

\* a / n for an integer n > 0 (a list length)
FDivInt(a, n) == IF a.kind = "fin" THEN [a EXCEPT !.den = a.den * n] ELSE a

\* abs(a)
FAbs(a) ==
    IF a.kind = "fin" THEN [a EXCEPT !.num = IF a.num < 0 THEN 0 - a.num ELSE a.num]
    ELSE IF a.kind = "ninf" THEN PosInf
    ELSE a

\* a > b: every comparison with NaN is False
FGt(a, b) ==
    IF a.kind = "nan" \/ b.kind = "nan" THEN FALSE
    ELSE IF a.kind = "inf" THEN b.kind # "inf"
    ELSE IF a.kind = "ninf" THEN FALSE
    ELSE IF b.kind = "inf" THEN FALSE
    ELSE IF b.kind = "ninf" THEN TRUE
    ELSE a.num * b.den > b.num * a.den

\* sum(historical_data): 0 + x1 + x2 + ... + xn.  The additions are exact
\* here, so their order does not change the value; the list is split in
\* halves to keep the evaluation shallow.
RECURSIVE SumRange(_, _, _)
SumRange(xs, lo, hi) ==
    IF lo > hi THEN Fin(0)
    ELSE IF lo = hi THEN FAdd(Fin(0), xs[lo])
    ELSE LET mid == (lo + hi) \div 2
         IN  FAdd(SumRange(xs, lo, mid), SumRange(xs, mid + 1, hi))

sum(xs) == SumRange(xs, 1, Len(xs))

(***************************************************************************)
(* Program constants                                                       *)
(***************************************************************************)
MinHistory == 5
HistoryLimit == 100
PercentStep == 5
ResponseStep == 1

(***************************************************************************)
(* detect_anomalies(current_value, historical_data, threshold)             *)
(***************************************************************************)
detect_anomalies_ge(current_value, historical_data, threshold) ==
    IF Len(historical_data) < MinHistory THEN FALSE
    ELSE LET avg == FDivInt(sum(historical_data), Len(historical_data))
             deviation == FAbs(FSub(current_value, avg))
         IN  FGt(deviation, Fin(threshold))
             \/ (deviation.kind = "fin" /\ deviation.num = threshold * deviation.den)

detect_anomalies_early(current_value, historical_data, threshold) ==
    IF Len(historical_data) < MinHistory - 1 THEN FALSE
    ELSE LET avg == FDivInt(sum(historical_data), Len(historical_data))
             deviation == FAbs(FSub(current_value, avg))
         IN  FGt(deviation, Fin(threshold))

detect_anomalies_skipping_inf(current_value, historical_data, threshold) ==
    LET finite == SelectSeq(historical_data, IsFinite)
    IN  IF Len(historical_data) < MinHistory \/ finite = <<>> THEN FALSE
        ELSE LET avg == FDivInt(sum(finite), Len(finite))
                 deviation == FAbs(FSub(current_value, avg))
             IN  FGt(deviation, Fin(threshold))

detect_anomalies(current_value, historical_data, threshold) ==
    IF Len(historical_data) < MinHistory THEN FALSE
    ELSE LET avg == FDivInt(sum(historical_data), Len(historical_data))
             deviation == FAbs(FSub(current_value, avg))
             is_anomaly == FGt(deviation, Fin(threshold))
         IN  is_anomaly

(***************************************************************************)
(* Bounds of the exploration                                               *)
(***************************************************************************)
\* health checks appended to the histories in a run fed with freely chosen readings
MaxCycles == 6
\* health checks appended to the histories in a run fed with the scripted ramp
LongRun == 102
\* cycles of a freely fed run whose readings differ from the baseline
MaxSpikes == 2

(***************************************************************************)
(* The environment: readings, the config file                              *)
(***************************************************************************)
Metrics == {"cpu_usage", "memory_usage", "disk_usage", "response_time"}

ThresholdKeys ==
    {"cpu_threshold", "memory_threshold", "disk_threshold", "response_time_threshold"}

AllKeys ==
    ThresholdKeys \cup {"log_level", "alert_email", "prometheus_port", "check_interval",
                        "service_name", "server_urls"}

\* check_server_response(): the elapsed seconds of a 200 answer, else float('inf')
ProbeTimes == {1, 2, 3}
check_server_response == {Fin(t) : t \in ProbeTimes} \cup {PosInf}

\* what psutil.cpu_percent(), psutil.virtual_memory().percent,
\* psutil.disk_usage('/').percent and check_server_response() return
Reading(cpu, mem, disk, rt) ==
    [cpu_usage |-> Fin(cpu), memory_usage |-> Fin(mem), disk_usage |-> Fin(disk),
     response_time |-> rt]

Baseline == Reading(10, 40, 30, Fin(1))

\* the readings one call of perform_health_checks can obtain in a freely fed
\* run: a quiet host, a CPU spike, a memory spike, a CPU spike together with a
\* failed liveness probe
FreeReadings ==
    {Baseline, Reading(95, 40, 30, Fin(1)), Reading(10, 90, 30, Fin(1)),
     Reading(95, 40, 30, PosInf)}

\* the readings of cycle n in a scripted run: the percentages ramp, so that the
\* values of any 101 consecutive cycles are pairwise different
RampReadings(n) ==
    {Reading(n % 101, (n + 40) % 101, (n + 70) % 101, Fin(1 + (n % 3)))}

\* config.json as first found: the thresholds and the keys it holds
\* a scripted run of five cycles: the CPU samples of the end-to-end scenario
ScenarioCpu == <<50, 52, 49, 51, 95>>
ScenarioReadings(n) == {Reading(ScenarioCpu[n], 40, 30, Fin(1))}

\* a quiet host whose liveness probe fails once, in the first cycle in which
\* detection is active
ProbeReadings(n) ==
    {IF n = MinHistory THEN Reading(10, 40, 30, PosInf) ELSE Baseline}

Percent(n) ==
    [cpu_threshold |-> n, memory_threshold |-> n, disk_threshold |-> n,
     response_time_threshold |-> 2]

ConfigFile(r, k, t) == [readable |-> r, keys |-> k, thresholds |-> t]

\* the runs explored: the config file found at start and the feed of readings
Runs ==
    {<<ConfigFile(TRUE, AllKeys, Percent(80)), "free">>,
     <<ConfigFile(TRUE, AllKeys, Percent(30)), "free">>,
     <<ConfigFile(TRUE, AllKeys, Percent(80)), "ramp">>,
     <<ConfigFile(TRUE, AllKeys, Percent(30)), "ramp">>,
     <<ConfigFile(TRUE, AllKeys, Percent(80)), "scenario">>,
     <<ConfigFile(FALSE, AllKeys, Percent(80)), "ramp">>,
     <<ConfigFile(TRUE, AllKeys \ {"alert_email"}, Percent(30)), "ramp">>,
     <<ConfigFile(TRUE, AllKeys \ {"log_level"}, Percent(80)), "ramp">>,
     <<ConfigFile(TRUE, AllKeys \ {"prometheus_port"}, Percent(80)), "ramp">>,
     <<ConfigFile(TRUE, AllKeys \ {"cpu_threshold"}, Percent(80)), "ramp">>,
     <<ConfigFile(TRUE, AllKeys \ {"memory_threshold"}, Percent(80)), "ramp">>,
     <<ConfigFile(TRUE, AllKeys \ {"response_time_threshold"}, Percent(80)), "ramp">>,
     <<ConfigFile(TRUE, AllKeys \ {"service_name"}, Percent(80)), "ramp">>}

VARIABLES
    pc,               \* where main() stands
    cfg,              \* config.json: readable, keys, the four thresholds
    config,           \* main's config, loaded once at start
    historical_data,  \* main's historical_data
    results,          \* main's results of the last health check
    thresholds,       \* thresholds of check_and_adapt_thresholds, loaded at line 157
    verdicts,         \* the four anomaly verdicts of check_and_adapt_thresholds
    new_thresholds,   \* new_thresholds of check_and_adapt_thresholds
    restarted,        \* outcome of restart_service in this cycle
    alerted,          \* outcome of send_alert in this cycle
    arrived,          \* every value ever appended, per metric
    kept,             \* new_thresholds of the last call of adjust_thresholds
    writes,           \* calls of adjust_thresholds that wrote config.json
    feed,             \* "free", "ramp", "scenario" or "probe": the source of the readings
    spikes,           \* cycles whose readings were off the baseline
    call,             \* one call of detect_anomalies and its result
    peerPc,           \* a second monitor on the same config.json: where it stands
    peerNew,          \* its new_thresholds
    peerWrites,       \* its adaptations written to config.json
    exporterPc,       \* where prometheus_thread stands
    gauges            \* the three Prometheus gauges

vars ==
    <<pc, cfg, config, historical_data, results, thresholds, verdicts, new_thresholds,
      restarted, alerted, arrived, kept, writes, feed, spikes, call, peerPc,
      peerNew, peerWrites, exporterPc, gauges>>

\* what the monitor's own steps never change
env == <<feed, call, peerPc, peerNew, peerWrites>>

\* the state of the exporter thread
exporter == <<exporterPc, gauges>>

\* a Gauge is 0 until it is set
NoGauges == [m \in {"cpu_usage", "memory_usage", "disk_usage"} |-> Fin(0)]

NoHistory == [m \in Metrics |-> <<>>]
NoResults ==
    [cpu_usage |-> Fin(0), memory_usage |-> Fin(0), disk_usage |-> Fin(0),
     response_time |-> Fin(0), needs_restart |-> FALSE]
NoVerdicts ==
    [cpu_usage |-> FALSE, memory_usage |-> FALSE, disk_usage |-> FALSE,
     response_time |-> FALSE, scored |-> FALSE]
NoThresholds ==
    [cpu_threshold |-> 0, memory_threshold |-> 0, disk_threshold |-> 0,
     response_time_threshold |-> 0]
NoConfig == [readable |-> FALSE, keys |-> {}, thresholds |-> NoThresholds]
NoCall ==
    [current_value |-> Fin(0), historical_data |-> <<>>, threshold |-> 0,
     returned |-> FALSE, result |-> FALSE]

CycleLimit ==
    CASE feed = "free" -> MaxCycles
      [] feed = "scenario" -> Len(ScenarioCpu)
      [] feed = "probe" -> LongRun + MinHistory
      [] OTHER -> LongRun
Appended == Len(arrived.cpu_usage)

Readings(n) ==
    CASE feed = "free" -> {r \in FreeReadings : r = Baseline \/ spikes < MaxSpikes}
      [] feed = "scenario" -> ScenarioReadings(n)
      [] feed = "probe" -> ProbeReadings(n)
      [] OTHER -> RampReadings(n)

Init ==
    /\ pc = "start"
    /\ \E run \in Runs : cfg = run[1] /\ feed = run[2]
    /\ config = NoConfig
    /\ historical_data = NoHistory
    /\ results = NoResults
    /\ thresholds = NoThresholds
    /\ verdicts = NoVerdicts
    /\ new_thresholds = NoThresholds
    /\ restarted = "none"
    /\ alerted = "none"
    /\ arrived = NoHistory
    /\ kept = NoThresholds
    /\ writes = 0
    /\ peerPc = "idle"
    /\ peerNew = NoThresholds
    /\ peerWrites = 0
    /\ exporterPc = "none"
    /\ gauges = NoGauges
    /\ spikes = 0
    /\ call = NoCall

(***************************************************************************)
(* main(): start                                                           *)
(***************************************************************************)
LoopPcs == {"loop", "append", "check", "adjust", "decide", "alert", "monitor"}

\* the process ends: its memory is gone and its daemon thread with it,
\* config.json stays
Exit(to) ==
    /\ pc' = to
    /\ config' = NoConfig
    /\ historical_data' = NoHistory
    /\ results' = NoResults
    /\ thresholds' = NoThresholds
    /\ verdicts' = NoVerdicts
    /\ new_thresholds' = NoThresholds
    /\ restarted' = "none"
    /\ alerted' = "none"
    /\ arrived' = NoHistory
    /\ kept' = NoThresholds
    /\ exporterPc' = "none"
    /\ gauges' = NoGauges

\* the iteration ends, normally or in the except clause of line 239: control is
\* back at the while of line 215; the locals of the finished iteration are dead
\* (each is assigned again before it is read) and are cleared
NextIteration ==
    /\ pc' = "loop"
    /\ results' = NoResults
    /\ thresholds' = NoThresholds
    /\ verdicts' = NoVerdicts
    /\ new_thresholds' = NoThresholds
    /\ restarted' = "none"
    /\ alerted' = "none"

\* a read of config.json may fail at any time (PermissionError, I/O error)
ReadFault == TRUE

\* load_config() raises: the file is missing or not JSON, or the read fails
load_config_raises == ~cfg.readable \/ ReadFault

\* lines 204-213: load_config, setup_logging(config['log_level']),
\* start_prometheus_server(config['prometheus_port']), empty histories
main_start ==
    /\ pc = "start"
    /\ \/ load_config_raises /\ Exit("crashed")
       \/ /\ cfg.readable
          /\ ~({"log_level", "prometheus_port"} \subseteq cfg.keys)
          /\ Exit("crashed")
       \/ /\ cfg.readable
          /\ {"log_level", "prometheus_port"} \subseteq cfg.keys
          /\ config' = cfg
          /\ exporterPc' = "serve"
          /\ historical_data' = NoHistory
          /\ pc' = "loop"
          /\ UNCHANGED <<results, thresholds, verdicts, new_thresholds, restarted,
                         alerted, arrived, kept, gauges>>
    /\ UNCHANGED <<cfg, writes, spikes, env>>

(***************************************************************************)
(* One iteration of the while loop, lines 215-240                          *)
(***************************************************************************)
\* the results dictionary of perform_health_checks for readings r
health_results(r) ==
    [cpu_usage |-> r.cpu_usage, memory_usage |-> r.memory_usage,
     disk_usage |-> r.disk_usage, response_time |-> r.response_time,
     needs_restart |-> FGt(r.cpu_usage, Fin(cfg.thresholds.cpu_threshold))]

\* lines 217-218: verify_server_is_running(), results = perform_health_checks();
\* an exception is caught at line 239 and the loop goes on
perform_health_checks ==
    /\ pc = "loop"
    /\ Appended < CycleLimit
    /\ \/ /\ load_config_raises
          /\ NextIteration
          /\ UNCHANGED spikes
       \/ /\ cfg.readable
          /\ "cpu_threshold" \notin cfg.keys
          /\ NextIteration
          /\ UNCHANGED spikes
       \/ /\ cfg.readable
          /\ "cpu_threshold" \in cfg.keys
          /\ \E r \in Readings(Appended + 1) :
                /\ results' = health_results(r)
                /\ spikes' = IF feed = "free" /\ r # Baseline THEN spikes + 1 ELSE spikes
          /\ pc' = "append"
          /\ UNCHANGED <<thresholds, verdicts, new_thresholds, restarted, alerted>>
    /\ UNCHANGED <<cfg, config, historical_data, arrived, kept, writes, env, exporter>>

append_pop_newest(history, value) ==
    LET appended == Append(history, value)
    IN  IF Len(appended) > HistoryLimit
        THEN SubSeq(appended, 1, Len(appended) - 1)
        ELSE appended

\* historical_data[key].append(results[key]); pop(0) when longer than 100
append_pop(history, value) ==
    LET appended == Append(history, value)
    IN  IF Len(appended) > HistoryLimit THEN Tail(appended) ELSE appended

\* lines 220-225
append_history ==
    /\ pc = "append"
    /\ historical_data' = [m \in Metrics |-> append_pop(historical_data[m], results[m])]
    /\ arrived' = [m \in Metrics |-> Append(arrived[m], results[m])]
    /\ pc' = "check"
    /\ UNCHANGED <<cfg, config, results, thresholds, verdicts, new_thresholds, restarted,
                   alerted, kept, writes, spikes, env, exporter>>

ThresholdKey(m) ==
    CASE m = "cpu_usage" -> "cpu_threshold"
      [] m = "memory_usage" -> "memory_threshold"
      [] m = "disk_usage" -> "disk_threshold"
      [] m = "response_time" -> "response_time_threshold"

score_unless_probe_failed(t) ==
    IF ~IsFinite(results.response_time)
    THEN NoVerdicts
    ELSE [cpu_usage |-> detect_anomalies(results.cpu_usage, historical_data.cpu_usage,
                                         t.cpu_threshold),
          memory_usage |-> detect_anomalies(results.memory_usage,
                                            historical_data.memory_usage,
                                            t.memory_threshold),
          disk_usage |-> detect_anomalies(results.disk_usage, historical_data.disk_usage,
                                          t.disk_threshold),
          response_time |-> detect_anomalies(results.response_time,
                                             historical_data.response_time,
                                             t.response_time_threshold),
          scored |-> TRUE]

score_after_adapting(t) ==
    [cpu_usage |-> detect_anomalies(results.cpu_usage, historical_data.cpu_usage,
                                    t.cpu_threshold + PercentStep),
     memory_usage |-> detect_anomalies(results.memory_usage, historical_data.memory_usage,
                                       t.memory_threshold + PercentStep),
     disk_usage |-> detect_anomalies(results.disk_usage, historical_data.disk_usage,
                                     t.disk_threshold + PercentStep),
     response_time |-> detect_anomalies(results.response_time,
                                        historical_data.response_time,
                                        t.response_time_threshold + ResponseStep),
     scored |-> TRUE]

\* lines 159-162: the four verdicts against the thresholds t just loaded
score(t) ==
    [cpu_usage |-> detect_anomalies(results.cpu_usage, historical_data.cpu_usage,
                                    t.cpu_threshold),
     memory_usage |-> detect_anomalies(results.memory_usage, historical_data.memory_usage,
                                       t.memory_threshold),
     disk_usage |-> detect_anomalies(results.disk_usage, historical_data.disk_usage,
                                     t.disk_threshold),
     response_time |-> detect_anomalies(results.response_time,
                                        historical_data.response_time,
                                        t.response_time_threshold),
     scored |-> TRUE]

raised_from_start(t) ==
    [cpu_threshold |-> config.thresholds.cpu_threshold + PercentStep,
     memory_threshold |-> config.thresholds.memory_threshold + PercentStep,
     disk_threshold |-> config.thresholds.disk_threshold + PercentStep,
     response_time_threshold |-> config.thresholds.response_time_threshold + ResponseStep]

\* lines 165-170: new_thresholds from the thresholds t just loaded
raised(t) ==
    [cpu_threshold |-> t.cpu_threshold + PercentStep,
     memory_threshold |-> t.memory_threshold + PercentStep,
     disk_threshold |-> t.disk_threshold + PercentStep,
     response_time_threshold |-> t.response_time_threshold + ResponseStep]

loaded_or_kept == IF kept # NoThresholds THEN kept ELSE cfg.thresholds

\* line 157: thresholds = load_config(), when the read succeeds
loaded_thresholds == cfg.thresholds

AllAnomalous(v) == v.cpu_usage /\ v.memory_usage /\ v.disk_usage /\ v.response_time

\* line 164: cpu_anomaly or memory_anomaly or disk_anomaly or response_anomaly
AnyAnomaly(v) == v.cpu_usage \/ v.memory_usage \/ v.disk_usage \/ v.response_time

\* lines 155-170 of check_and_adapt_thresholds, called at line 227: load the
\* thresholds, score the four metrics, build new_thresholds on an anomaly
check_and_adapt_thresholds ==
    /\ pc = "check"
    /\ \/ load_config_raises /\ NextIteration
       \/ /\ cfg.readable
          /\ ~(ThresholdKeys \subseteq cfg.keys)
          /\ NextIteration
       \/ /\ cfg.readable
          /\ ThresholdKeys \subseteq cfg.keys
          /\ thresholds' = loaded_thresholds
          /\ verdicts' = score(thresholds')
          /\ IF AnyAnomaly(verdicts')
             THEN new_thresholds' = raised(thresholds') /\ pc' = "adjust"
             ELSE new_thresholds' = new_thresholds /\ pc' = "decide"
          /\ UNCHANGED <<results, restarted, alerted>>
    /\ UNCHANGED <<cfg, config, historical_data, arrived, kept, writes, spikes, env, exporter>>

adjust_thresholds_anomalous_only ==
    /\ pc = "adjust"
    /\ \/ /\ cfg.readable
          /\ cfg' = [cfg EXCEPT
                       !.thresholds =
                           [cpu_threshold |->
                                IF verdicts.cpu_usage THEN new_thresholds.cpu_threshold
                                ELSE @.cpu_threshold,
                            memory_threshold |->
                                IF verdicts.memory_usage
                                THEN new_thresholds.memory_threshold
                                ELSE @.memory_threshold,
                            disk_threshold |->
                                IF verdicts.disk_usage THEN new_thresholds.disk_threshold
                                ELSE @.disk_threshold,
                            response_time_threshold |->
                                IF verdicts.response_time
                                THEN new_thresholds.response_time_threshold
                                ELSE @.response_time_threshold],
                       !.keys = @ \cup ThresholdKeys]
          /\ writes' = writes + 1
       \/ /\ load_config_raises
          /\ UNCHANGED <<cfg, writes>>
       \/ /\ cfg.readable
          /\ cfg' = [cfg EXCEPT !.readable = FALSE]
          /\ UNCHANGED writes
    /\ kept' = new_thresholds
    /\ new_thresholds' = NoThresholds
    /\ pc' = "decide"
    /\ UNCHANGED <<config, historical_data, results, thresholds, verdicts, restarted,
                   alerted, arrived, spikes, env, exporter>>

\* lines 174-188, called at line 171: read config.json, update the four
\* thresholds, write it back; every exception is caught and logged
adjust_thresholds ==
    /\ pc = "adjust"
    /\ \/ /\ cfg.readable
          /\ cfg' = [cfg EXCEPT !.thresholds = new_thresholds,
                                !.keys = @ \cup ThresholdKeys]
          /\ writes' = writes + 1
       \/ \* open() or json.load() raises: nothing is written
          /\ load_config_raises
          /\ UNCHANGED <<cfg, writes>>
       \/ \* json.dump() or the flush raises: the file is left half written
          /\ cfg.readable
          /\ cfg' = [cfg EXCEPT !.readable = FALSE]
          /\ UNCHANGED writes
    /\ kept' = new_thresholds
    /\ new_thresholds' = NoThresholds
    /\ pc' = "decide"
    /\ UNCHANGED <<config, historical_data, results, thresholds, verdicts, restarted,
                   alerted, arrived, spikes, env, exporter>>

\* os.system('systemctl restart ...'): exit status 0, a non-zero exit status
\* (also when systemctl is not found), or an exception caught at line 133
RestartOutcomes == {"ok", "nonzero", "raised"}

restart_service_uncaught ==
    /\ pc = "decide"
    /\ \/ /\ ~results.needs_restart
          /\ pc' = "monitor"
          /\ UNCHANGED <<config, historical_data, results, thresholds, verdicts,
                         new_thresholds, restarted, alerted, arrived, kept, exporter>>
       \/ /\ results.needs_restart
          /\ "service_name" \notin config.keys
          /\ Exit("crashed")
       \/ /\ results.needs_restart
          /\ "service_name" \in config.keys
          /\ restarted' \in RestartOutcomes
          /\ pc' = "alert"
          /\ UNCHANGED <<config, historical_data, results, thresholds, verdicts,
                         new_thresholds, alerted, arrived, kept, exporter>>
    /\ UNCHANGED <<cfg, writes, spikes, env>>

\* the cpu_usage sample exceeds the cpu_threshold config.json holds now
ExceedsPersisted == cfg.readable /\ FGt(results.cpu_usage, Fin(cfg.thresholds.cpu_threshold))

restart_service_rechecking ==
    /\ pc = "decide"
    /\ \/ /\ ~ExceedsPersisted
          /\ pc' = "monitor"
          /\ UNCHANGED <<results, thresholds, verdicts, new_thresholds, restarted, alerted>>
       \/ /\ ExceedsPersisted
          /\ "service_name" \notin config.keys
          /\ NextIteration
       \/ /\ ExceedsPersisted
          /\ "service_name" \in config.keys
          /\ restarted' \in RestartOutcomes
          /\ pc' = "alert"
          /\ UNCHANGED <<results, thresholds, verdicts, new_thresholds, alerted>>
    /\ UNCHANGED <<cfg, config, historical_data, arrived, kept, writes, spikes, env, exporter>>

\* lines 229-230: if results['needs_restart']: restart_service(config['service_name'])
restart_service ==
    /\ pc = "decide"
    /\ \/ /\ ~results.needs_restart
          /\ pc' = "monitor"
          /\ UNCHANGED <<results, thresholds, verdicts, new_thresholds, restarted, alerted>>
       \/ /\ results.needs_restart
          /\ "service_name" \notin config.keys
          /\ NextIteration
       \/ /\ results.needs_restart
          /\ "service_name" \in config.keys
          /\ restarted' \in RestartOutcomes
          /\ pc' = "alert"
          /\ UNCHANGED <<results, thresholds, verdicts, new_thresholds, alerted>>
    /\ UNCHANGED <<cfg, config, historical_data, arrived, kept, writes, spikes, env, exporter>>

send_alert_on_failure ==
    /\ pc = "alert"
    /\ IF restarted = "ok" THEN alerted' = "none" ELSE alerted' \in {"sent", "failed"}
    /\ pc' = "monitor"
    /\ UNCHANGED <<cfg, config, historical_data, results, thresholds, verdicts,
                   new_thresholds, restarted, arrived, kept, writes, spikes, env, exporter>>

\* line 231: send_alert(...); a failure to send is caught at line 125
send_alert ==
    /\ pc = "alert"
    /\ alerted' \in {"sent", "failed"}
    /\ pc' = "monitor"
    /\ UNCHANGED <<cfg, config, historical_data, results, thresholds, verdicts,
                   new_thresholds, restarted, arrived, kept, writes, spikes, env, exporter>>

\* lines 233-235: monitor_distributed_servers(config['server_urls']) and
\* time.sleep(config['check_interval']); a missing key is caught at line 239
monitor_distributed_servers ==
    /\ pc = "monitor"
    /\ NextIteration
    /\ UNCHANGED <<cfg, config, historical_data, arrived, kept, writes, spikes, env, exporter>>

\* lines 236-238: Ctrl-C ends the loop
KeyboardInterrupt ==
    /\ pc \in LoopPcs
    /\ Exit("stopped")
    /\ UNCHANGED <<cfg, writes, spikes, env>>

Next ==
    \/ main_start
    \/ perform_health_checks
    \/ append_history
    \/ check_and_adapt_thresholds
    \/ adjust_thresholds
    \/ restart_service
    \/ send_alert
    \/ monitor_distributed_servers
    \/ KeyboardInterrupt

Spec == Init /\ [][Next]_vars

\* the steps of the monitor process itself
MonitorStep ==
    \/ main_start
    \/ perform_health_checks
    \/ append_history
    \/ check_and_adapt_thresholds
    \/ adjust_thresholds
    \/ restart_service
    \/ send_alert
    \/ monitor_distributed_servers

\* the process keeps running: every call it makes returns or raises
FairSpec == Spec /\ WF_vars(MonitorStep)

(***************************************************************************)
(* Two monitor instances on one config.json.  The second instance runs the *)
(* same check_and_adapt_thresholds and adjust_thresholds; only its         *)
(* adaptation is modelled.  Neither function takes a lock on the file.     *)
(***************************************************************************)
\* adaptations the second instance makes
MaxPeerAdapts == 2

\* the thresholds config.json holds when the two instances start
SharedStart == Percent(30)

InitShared ==
    /\ Init
    /\ feed = "free"
    /\ cfg = ConfigFile(TRUE, AllKeys, SharedStart)

\* lines 157-170 in the second instance: it loads the thresholds, finds an
\* anomaly in its own readings and builds its new_thresholds
peer_check_and_adapt_thresholds ==
    /\ peerPc = "idle"
    /\ peerWrites < MaxPeerAdapts
    /\ cfg.readable
    /\ ThresholdKeys \subseteq cfg.keys
    /\ peerNew' = raised(loaded_thresholds)
    /\ peerPc' = "adjust"
    /\ UNCHANGED <<pc, cfg, config, historical_data, results, thresholds, verdicts,
                   new_thresholds, restarted, alerted, arrived, kept, writes, feed,
                   spikes, call, peerWrites, exporter>>

\* lines 174-188 in the second instance
peer_adjust_thresholds ==
    /\ peerPc = "adjust"
    /\ \/ /\ cfg.readable
          /\ cfg' = [cfg EXCEPT !.thresholds = peerNew,
                                !.keys = @ \cup ThresholdKeys]
          /\ peerWrites' = peerWrites + 1
       \/ /\ load_config_raises
          /\ UNCHANGED <<cfg, peerWrites>>
    /\ peerNew' = NoThresholds
    /\ peerPc' = "idle"
    /\ UNCHANGED <<pc, config, historical_data, results, thresholds, verdicts,
                   new_thresholds, restarted, alerted, arrived, kept, writes, feed,
                   spikes, call, exporter>>

NextShared ==
    \/ Next
    \/ peer_check_and_adapt_thresholds
    \/ peer_adjust_thresholds

SpecShared == InitShared /\ [][NextShared]_vars

(***************************************************************************)
(* The exporter: prometheus_thread of start_prometheus_server, a daemon    *)
(* thread running beside the loop of main                                  *)
(***************************************************************************)
\* what the psutil calls of the exporter can return
GaugeReadings == {r \in FreeReadings : IsFinite(r.response_time)}

InitExporter ==
    /\ pc = "start"
    /\ cfg = ConfigFile(TRUE, AllKeys, Percent(30))
    /\ feed = "scenario"
    /\ config = NoConfig
    /\ historical_data = NoHistory
    /\ results = NoResults
    /\ thresholds = NoThresholds
    /\ verdicts = NoVerdicts
    /\ new_thresholds = NoThresholds
    /\ restarted = "none"
    /\ alerted = "none"
    /\ arrived = NoHistory
    /\ kept = NoThresholds
    /\ writes = 0
    /\ peerPc = "idle"
    /\ peerNew = NoThresholds
    /\ peerWrites = 0
    /\ exporterPc = "none"
    /\ gauges = NoGauges
    /\ spikes = 0
    /\ call = NoCall

prometheus_thread_recording ==
    /\ exporterPc \in {"cpu_usage", "memory_usage", "disk_usage"}
    /\ \E r \in GaugeReadings :
          /\ gauges' = [gauges EXCEPT ![exporterPc] = r[exporterPc]]
          /\ historical_data' =
                [historical_data EXCEPT
                    ![exporterPc] = append_pop(historical_data[exporterPc], r[exporterPc])]
    /\ exporterPc' = CASE exporterPc = "cpu_usage" -> "memory_usage"
                       [] exporterPc = "memory_usage" -> "disk_usage"
                       [] exporterPc = "disk_usage" -> "cpu_usage"
    /\ UNCHANGED <<pc, cfg, config, results, thresholds, verdicts,
                   new_thresholds, restarted, alerted, arrived, kept, writes, spikes, env>>

\* lines 143-144: start_http_server(port); when it raises (port in use) the
\* thread ends and the gauges are never set
start_http_server ==
    /\ exporterPc = "serve"
    /\ exporterPc' \in {"cpu_usage", "dead"}
    /\ UNCHANGED <<pc, cfg, config, historical_data, results, thresholds, verdicts,
                   new_thresholds, restarted, alerted, arrived, kept, writes, spikes, env,
                   gauges>>

\* lines 145-148: one gauge.set(psutil...) of the while loop; after the third
\* and the sleep the loop starts again
prometheus_thread ==
    /\ exporterPc \in {"cpu_usage", "memory_usage", "disk_usage"}
    /\ \E r \in GaugeReadings :
          gauges' = [gauges EXCEPT ![exporterPc] = r[exporterPc]]
    /\ exporterPc' = CASE exporterPc = "cpu_usage" -> "memory_usage"
                       [] exporterPc = "memory_usage" -> "disk_usage"
                       [] exporterPc = "disk_usage" -> "cpu_usage"
    /\ UNCHANGED <<pc, cfg, config, historical_data, results, thresholds, verdicts,
                   new_thresholds, restarted, alerted, arrived, kept, writes, spikes, env>>

NextExporter ==
    \/ Next
    \/ start_http_server
    \/ prometheus_thread

SpecExporter == InitExporter /\ [][NextExporter]_vars

(***************************************************************************)
(* Runs with failed liveness probes: the freely fed run, and a long quiet  *)
(* run with one failed probe                                               *)
(***************************************************************************)
InitProbe ==
    /\ pc = "start"
    /\ cfg = ConfigFile(TRUE, AllKeys, Percent(30))
    /\ feed \in {"free", "probe"}
    /\ config = NoConfig
    /\ historical_data = NoHistory
    /\ results = NoResults
    /\ thresholds = NoThresholds
    /\ verdicts = NoVerdicts
    /\ new_thresholds = NoThresholds
    /\ restarted = "none"
    /\ alerted = "none"
    /\ arrived = NoHistory
    /\ kept = NoThresholds
    /\ writes = 0
    /\ peerPc = "idle"
    /\ peerNew = NoThresholds
    /\ peerWrites = 0
    /\ exporterPc = "none"
    /\ gauges = NoGauges
    /\ spikes = 0
    /\ call = NoCall

SpecProbe == InitProbe /\ [][Next]_vars

(***************************************************************************)
(* detect_anomalies on its own: every call with arguments from small sets  *)
(***************************************************************************)
\* longest history passed to detect_anomalies
MaxProbeLen == 6

RECURSIVE SeqsUpTo(_, _)
SeqsUpTo(S, n) ==
    IF n = 0 THEN {<<>>}
    ELSE LET shorter == SeqsUpTo(S, n - 1)
         IN  shorter \cup {Append(q, x) : q \in {r \in shorter : Len(r) = n - 1}, x \in S}

ProbeHistoryValues == {Fin(10), Fin(13), PosInf}
ProbeCandidates == {Fin(10), Fin(11), Fin(13), PosInf, NaN}
ProbeThresholds == {2, 3}

InitDetect ==
    /\ pc = "start"
    /\ cfg = ConfigFile(TRUE, AllKeys, Percent(80))
    /\ feed = "free"
    /\ config = NoConfig
    /\ historical_data = NoHistory
    /\ results = NoResults
    /\ thresholds = NoThresholds
    /\ verdicts = NoVerdicts
    /\ new_thresholds = NoThresholds
    /\ restarted = "none"
    /\ alerted = "none"
    /\ arrived = NoHistory
    /\ kept = NoThresholds
    /\ writes = 0
    /\ peerPc = "idle"
    /\ peerNew = NoThresholds
    /\ peerWrites = 0
    /\ exporterPc = "none"
    /\ gauges = NoGauges
    /\ spikes = 0
    /\ \E c \in ProbeCandidates, h \in SeqsUpTo(ProbeHistoryValues, MaxProbeLen),
          t \in ProbeThresholds :
           call = [current_value |-> c, historical_data |-> h, threshold |-> t,
                   returned |-> FALSE, result |-> FALSE]

\* one call of detect_anomalies, lines 100-109
detect_call ==
    /\ ~call.returned
    /\ call' = [call EXCEPT !.returned = TRUE,
                            !.result = detect_anomalies(call.current_value,
                                                        call.historical_data,
                                                        call.threshold)]
    /\ UNCHANGED <<pc, cfg, config, historical_data, results, thresholds, verdicts,
                   new_thresholds, restarted, alerted, arrived, kept, writes, feed,
                   spikes, peerPc, peerNew, peerWrites, exporter>>

NextDetect == detect_call

SpecDetect == InitDetect /\ [][NextDetect]_vars

(***************************************************************************)
(* Properties                                                              *)
(***************************************************************************)
AllFinite(h) == \A i \in 1..Len(h) : IsFinite(h[i])

\* the integer total of a history of finite whole values
RECURSIVE Total(_)
Total(h) == IF h = <<>> THEN 0 ELSE h[1].num + Total(Tail(h))

\* |c - mean(h)| > t for a history h of finite whole values, without division:
\* |c * n - total| > t * n; for c = +inf the deviation is infinite, for a NaN
\* candidate no comparison holds
DeviationExceeds(c, h, t) ==
    CASE c.kind = "fin" ->
           LET n == Len(h)
               d == c.num * n - Total(h)
           IN  d > t * n \/ 0 - d > t * n
      [] c.kind = "inf" -> TRUE
      [] OTHER -> FALSE

Tens == <<Fin(10), Fin(10), Fin(10), Fin(10), Fin(10)>>

\* C2: detect_anomalies returns false for every history of fewer than 5 values,
\* and for a history of 5 or more finite values returns true exactly when the
\* candidate deviates from the mean of the history by more than the threshold;
\* history [10,10,10,10,10] with threshold 2 gives true for 13 and false for 11.
C2_Detect ==
    call.returned =>
        /\ Len(call.historical_data) < 5 => ~call.result
        /\ (Len(call.historical_data) >= 5 /\ AllFinite(call.historical_data)) =>
               (call.result <=>
                   DeviationExceeds(call.current_value, call.historical_data, call.threshold))
        /\ (call.historical_data = Tens /\ call.threshold = 2) =>
               /\ call.current_value = Fin(13) => call.result
               /\ call.current_value = Fin(11) => ~call.result

C2_Witness ==
    /\ call.returned
    /\ call.historical_data = Tens
    /\ call.threshold = 2
    /\ call.current_value = Fin(13)
    /\ call.result

\* the last k values of q
LastOf(q, k) == SubSeq(q, Len(q) - k + 1, Len(q))

\* C1: each metric's history holds at most 100 values, and is exactly the most
\* recent 100 (all of them while there are fewer) of the values appended, in
\* arrival order.
C1_HistoryWindow ==
    \A m \in Metrics :
        /\ Len(historical_data[m]) <= 100
        /\ historical_data[m] =
               LastOf(arrived[m], IF Len(arrived[m]) > 100 THEN 100 ELSE Len(arrived[m]))

C1_Witness ==
    /\ pc = "loop"
    /\ Len(arrived.cpu_usage) > 100
    /\ Len(historical_data.cpu_usage) = 100
    /\ historical_data.cpu_usage[1] = arrived.cpu_usage[Len(arrived.cpu_usage) - 99]
    /\ historical_data.cpu_usage[1] # arrived.cpu_usage[1]

\* thresholds t after k adaptations of +5 (+1 for the response time)
Plus(t, k) ==
    [cpu_threshold |-> t.cpu_threshold + 5 * k,
     memory_threshold |-> t.memory_threshold + 5 * k,
     disk_threshold |-> t.disk_threshold + 5 * k,
     response_time_threshold |-> t.response_time_threshold + k]

\* C3: adaptation is cumulative: while the monitor runs, the thresholds in
\* config.json are the start values plus 5 (response time: plus 1) per anomalous
\* cycle whose write succeeded; they are never reset between cycles.
C3_Cumulative ==
    (pc \in LoopPcs /\ cfg.readable) => cfg.thresholds = Plus(config.thresholds, writes)

C3_Witness ==
    /\ pc \in LoopPcs
    /\ cfg.readable
    /\ config.thresholds.cpu_threshold = 80
    /\ writes = 2
    /\ cfg.thresholds.cpu_threshold = 90

\* C4: a cycle whose health check set needs_restart does not end without the
\* restart action having been invoked, whatever happens in the scoring and
\* adaptation step.
C4_RestartIndependent ==
    [][(pc \in LoopPcs \ {"loop"} /\ results.needs_restart /\ pc' = "loop")
          => restarted # "none"]_vars

\* C5 as stated: an alert is sent only after a failed restart action.
C5_AlertOnlyOnFailure == alerted # "none" => restarted \in {"nonzero", "raised"}

\* C5, amended: an alert is attempted after every restart attempt, whatever the
\* outcome of the restart action, and never in a cycle without a restart attempt.
C5_AlertAfterEveryRestart ==
    /\ alerted # "none" => restarted # "none"
    /\ pc = "monitor" => (restarted # "none" => alerted # "none")

C5_Witness == pc = "monitor" /\ restarted = "ok" /\ alerted = "sent"

C7_NonFiniteAnomalous ==
    (verdicts.scored /\ ~IsFinite(results.response_time)
        /\ Len(historical_data.response_time) >= 5)
    => verdicts.response_time

\* C8: no adaptation's increment is lost or overwritten by a stale value: with
\* two instances on one config.json, the file holds the start thresholds
\* raised once for every adaptation either instance has written
C8_NoLostIncrement ==
    cfg.readable => cfg.thresholds = Plus(SharedStart, writes + peerWrites)

\* C9: once started the monitor never ends on a failure inside a cycle: every
\* step taken inside the loop leads back to the loop or to the end by Ctrl-C,
\* every cycle under way gets back to the top of the loop (unless interrupted),
\* and there the next health check can start.
C9_LoopGoesOn ==
    /\ [][(pc \in LoopPcs) => pc' \in (LoopPcs \cup {"stopped"})]_vars
    /\ (pc \in LoopPcs \ {"loop"}) ~> (pc \in {"loop", "stopped"})
    /\ []((pc = "loop" /\ Appended < CycleLimit) => ENABLED perform_health_checks)

\* config.json was left half written by a failed adaptation, the loop goes on
C9_Witness == pc = "loop" /\ Appended > 0 /\ ~cfg.readable

RequiredKeys ==
    {"cpu_threshold", "memory_threshold", "disk_threshold", "log_level", "alert_email"}

\* C10: with a required key missing from config.json the process never enters
\* the monitoring loop.
C10_StartupFatal == ~(RequiredKeys \subseteq cfg.keys) => pc \notin LoopPcs

Percentages == {"cpu_usage", "memory_usage", "disk_usage"}

\* C11: a failed liveness probe gives response_time = +infinity and does not
\* abort the cycle: in that cycle cpu, memory and disk usage are sampled, are
\* appended to their histories and are scored by detect_anomalies, and the
\* restart decision is taken from needs_restart.
C11_ProbeIsolated ==
    (pc \in LoopPcs \ {"loop"} /\ results.response_time = PosInf) =>
        /\ \A m \in Percentages : IsFinite(results[m])
        /\ pc = "append" => ENABLED append_history
        /\ pc # "append" =>
              \A m \in Metrics :
                  /\ Len(historical_data[m]) > 0
                  /\ historical_data[m][Len(historical_data[m])] = results[m]
        /\ pc \in {"adjust", "decide", "alert", "monitor"} =>
              /\ verdicts.scored
              /\ \A m \in Percentages :
                    verdicts[m] = detect_anomalies(results[m], historical_data[m],
                                                   thresholds[ThresholdKey(m)])
        /\ pc = "decide" => ENABLED restart_service
        /\ pc \in {"alert", "monitor"} => (results.needs_restart <=> restarted # "none")

\* the probe failed in the fifth cycle, the CPU spike of that cycle was scored
\* anomalous and the restart was invoked
C11_Witness ==
    /\ pc = "alert"
    /\ results.response_time = PosInf
    /\ Len(historical_data.cpu_usage) >= 5
    /\ verdicts.scored
    /\ verdicts.cpu_usage
    /\ restarted # "none"

\* C12: in the scripted run with thresholds 80 and CPU samples 50, 52, 49, 51,
\* 95, the CPU sample of cycle 5 is scored anomalous, and the restart is invoked
\* in cycle 5 exactly when 95 exceeds cpu_threshold.
C12_EndToEnd ==
    (feed = "scenario" /\ Appended = 5) =>
        /\ verdicts.scored => verdicts.cpu_usage
        /\ pc \in {"alert", "monitor"} =>
              (restarted # "none" <=> 95 > config.thresholds.cpu_threshold)

\* the verdicts detect_anomalies gives for this cycle's samples against t
VerdictsAgainst(t) ==
    [m \in Metrics |->
        detect_anomalies(results[m], historical_data[m], t[ThresholdKey(m)])]

\* C13: the thresholds in config.json change only in the adaptation step of a
\* cycle, after the four verdicts of that cycle were computed against the
\* thresholds the file held before the write; the write leaves the verdicts as
\* they are, and no verdict is computed again later in the cycle.
C13_ScoredBeforeAdapt ==
    [][/\ cfg'.thresholds # cfg.thresholds =>
             /\ pc = "adjust"
             /\ verdicts.scored
             /\ \A m \in Metrics : verdicts[m] = VerdictsAgainst(cfg.thresholds)[m]
             /\ verdicts' = verdicts
       /\ (pc \in {"adjust", "decide", "alert", "monitor"} /\ pc' \in LoopPcs \ {"loop"}) =>
             verdicts' = verdicts]_vars

\* the adaptation was written, and a verdict of this cycle would have been
\* different against the raised thresholds
C13_Witness ==
    /\ pc = "decide"
    /\ verdicts.scored
    /\ cfg.readable
    /\ cfg.thresholds = Plus(thresholds, 1)
    /\ \E m \in Metrics : verdicts[m] /\ ~VerdictsAgainst(cfg.thresholds)[m]

\* some metric of the cycle was scored anomalous
SomeVerdict(v) == \E m \in Metrics : v[m]

\* C14: config.json changes only in the adaptation of a cycle with an anomalous
\* metric; adjust_thresholds is called exactly when a metric was scored
\* anomalous and at most once per cycle; the call is one write of the four
\* thresholds (which leaves them as they were when it fails).
C14_OneAdaptation ==
    [][/\ cfg' # cfg => (pc = "adjust" /\ SomeVerdict(verdicts))
       /\ (pc = "check" /\ pc' \in {"adjust", "decide"}) =>
             (pc' = "adjust" <=> SomeVerdict(verdicts'))
       /\ pc = "adjust" => pc' \in {"decide", "stopped"}
       /\ pc \in {"decide", "alert", "monitor"} => pc' \notin {"check", "adjust"}
       /\ writes' # writes =>
             /\ pc = "adjust"
             /\ writes' = writes + 1
             /\ cfg'.thresholds = new_thresholds
       /\ (pc = "adjust" /\ writes' = writes /\ cfg'.readable) =>
             cfg'.thresholds = cfg.thresholds]_vars

\* one metric alone was anomalous and the thresholds were written once
C14_Witness ==
    /\ pc = "decide"
    /\ verdicts.scored
    /\ verdicts.memory_usage
    /\ ~verdicts.cpu_usage /\ ~verdicts.disk_usage /\ ~verdicts.response_time
    /\ writes = 1
    /\ cfg.readable
    /\ cfg.thresholds = Plus(thresholds, 1)

\* C15: while fewer than five samples have been appended (cycles 1 to 4) no
\* metric is scored anomalous, no adaptation is started and the thresholds in
\* config.json are those found at start, whatever the samples.
C15_QuietUntilFive ==
    (pc \in LoopPcs /\ Appended < 5) =>
        /\ ~SomeVerdict(verdicts)
        /\ pc # "adjust"
        /\ writes = 0
        /\ cfg = config

\* detection is active in the fifth cycle: its CPU sample is scored anomalous
C15_Witness ==
    /\ pc = "adjust"
    /\ Appended = 5
    /\ Len(historical_data.cpu_usage) = 5
    /\ verdicts.cpu_usage

\* a step of the running exporter thread
ExporterStep ==
    /\ exporterPc # "none"
    /\ exporterPc' # "none"
    /\ exporter' # exporter

\* C16: a step of the exporter thread changes only the three gauges (and the
\* thread's own position): the histories, the thresholds, config.json and the
\* state of the evaluation loop stay as they are; and whatever the exporter is
\* doing, a cycle under way can take its next step.
C16_ExporterFrame ==
    /\ [][ExporterStep =>
             /\ UNCHANGED <<pc, cfg, config, historical_data, results, thresholds,
                            verdicts, new_thresholds, restarted, alerted, arrived, kept,
                            writes>>
             /\ DOMAIN gauges' = {"cpu_usage", "memory_usage", "disk_usage"}]_vars
    /\ []((pc \in LoopPcs \ {"loop"}) => ENABLED MonitorStep)

\* the exporter has set its gauges while a cycle was under way
C16_Witness ==
    /\ pc = "check"
    /\ Len(historical_data.cpu_usage) = 5
    /\ exporterPc = "cpu_usage"
    /\ gauges.cpu_usage = Fin(95)
    /\ gauges.memory_usage = Fin(90)
    /\ gauges.disk_usage = Fin(30)

\* C17: the restart of a cycle is invoked exactly when the cpu_usage sample
\* exceeds the cpu_threshold that was in config.json before the adaptation of
\* that cycle (the one the scoring step loaded); needs_restart is fixed at
\* sampling and nothing later in the cycle changes it.
C17_RestartBeforeAdapt ==
    /\ [](pc \in {"alert", "monitor"} =>
            /\ restarted # "none" <=> results.needs_restart
            /\ results.needs_restart <=>
                   FGt(results.cpu_usage, Fin(thresholds.cpu_threshold)))
    /\ [][(pc \in {"append", "check", "adjust", "decide", "alert"}
            /\ pc' \in LoopPcs \ {"loop"}) => results' = results]_vars

\* the restart was invoked although the sample does not exceed the threshold
\* the adaptation of the same cycle has written
C17_Witness ==
    /\ pc = "alert"
    /\ results.needs_restart
    /\ cfg.readable
    /\ cfg.thresholds = Plus(thresholds, 1)
    /\ ~FGt(results.cpu_usage, Fin(cfg.thresholds.cpu_threshold))

\* C18: with no other writer of config.json, every change of its thresholds
\* raises cpu, memory and disk by exactly 5 and the response time by exactly 1,
\* all four together; so no threshold ever decreases and, while the monitor
\* runs, cpu_threshold - memory_threshold and cpu_threshold - disk_threshold are
\* what they were at start.
C18_Lockstep ==
    /\ [][cfg'.thresholds # cfg.thresholds =>
             /\ cfg'.thresholds.cpu_threshold = cfg.thresholds.cpu_threshold + 5
             /\ cfg'.thresholds.memory_threshold = cfg.thresholds.memory_threshold + 5
             /\ cfg'.thresholds.disk_threshold = cfg.thresholds.disk_threshold + 5
             /\ cfg'.thresholds.response_time_threshold =
                    cfg.thresholds.response_time_threshold + 1]_vars
    /\ []((pc \in LoopPcs /\ cfg.readable) =>
            /\ cfg.thresholds.cpu_threshold - cfg.thresholds.memory_threshold =
                   config.thresholds.cpu_threshold - config.thresholds.memory_threshold
            /\ cfg.thresholds.cpu_threshold - cfg.thresholds.disk_threshold =
                   config.thresholds.cpu_threshold - config.thresholds.disk_threshold
            /\ \A k \in ThresholdKeys : cfg.thresholds[k] >= config.thresholds[k])

\* the CPU sample alone was anomalous and all four thresholds were raised
C18_Witness ==
    /\ pc = "decide"
    /\ verdicts.cpu_usage
    /\ ~verdicts.memory_usage /\ ~verdicts.disk_usage /\ ~verdicts.response_time
    /\ cfg.readable
    /\ cfg.thresholds.memory_threshold = thresholds.memory_threshold + 5
    /\ cfg.thresholds.disk_threshold = thresholds.disk_threshold + 5
    /\ cfg.thresholds.response_time_threshold = thresholds.response_time_threshold + 1
    /\ cfg.thresholds.cpu_threshold = thresholds.cpu_threshold + 5

\* the response_time history holds a +infinity
HoldsInf == \E i \in 1..Len(historical_data.response_time) :
                historical_data.response_time[i] = PosInf

\* C19: in a scored cycle whose response_time sample is finite while the
\* history holds at least 5 values and a +infinity among them, response_time is
\* scored anomalous and adjust_thresholds is called with all four thresholds
\* raised; in the quiet run with one failed probe this makes at most 99
\* adaptations, which end when the +infinity leaves the window.
C19_InfKeepsAdapting ==
    /\ (/\ pc \in {"adjust", "decide", "alert", "monitor"}
        /\ IsFinite(results.response_time)
        /\ Len(historical_data.response_time) >= 5
        /\ HoldsInf) =>
           /\ verdicts.response_time
           /\ pc = "adjust" => new_thresholds = Plus(thresholds, 1)
           /\ pc # "adjust" => kept = Plus(thresholds, 1)
           /\ (pc # "adjust" /\ cfg.readable) =>
                 cfg.thresholds \in {thresholds, Plus(thresholds, 1)}
    /\ feed = "probe" =>
           /\ writes <= 99
           /\ pc = "adjust" => HoldsInf

\* the one failed probe has caused 99 adaptations in a row, and the run goes on
\* after the +infinity has left the window
C19_Witness ==
    /\ feed = "probe"
    /\ pc = "decide"
    /\ writes = 99
    /\ cfg.readable
    /\ cfg.thresholds = Plus(config.thresholds, 99)
    /\ Len(historical_data.response_time) = 100
    /\ ~HoldsInf
    /\ ~SomeVerdict(verdicts)

====
